---- MODULE Spec2Model ----
(***************************************************************************)
(* EquationSolver (src/solver.py): bracket search (__setInterval) followed *)
(* by one of three refiners (__binary_search, __secant, __golden).         *)
(*                                                                         *)
(* Number model.  Python floats are modelled by integers:                  *)
(*   - a position (an interval endpoint, a sample, a midpoint, a probe, a  *)
(*     secant iterate) is an even integer: the representable numbers near  *)
(*     the bracket are 2 apart, and every computed position is rounded to  *)
(*     the nearest of them, ties to the one with an even index (IEEE       *)
(*     round-half-to-even);                                                *)
(*   - small magnitudes (precision, differences, function values) are      *)
(*     exact integers, so a precision below the spacing of the positions   *)
(*     (precision = 1) exists, as 1e-20 exists beside 1.0 in binary64;     *)
(*   - a magnitude above MaxFloat overflows to +inf / -inf, and nan is a   *)
(*     value of its own, unequal to everything including itself.           *)
(***************************************************************************)
EXTENDS Integers, Sequences, FiniteSets, TLC

\* ------------------------------------------------------------------ bounds
\* Largest finite magnitude of the number model.
MaxFloat == 30000
\* n_sample is drawn from 1..MaxSample.
MaxSample == 2
\* max_iter is drawn from 1..MaxIter.
MaxIter == 2
\* Iterations of a refinement loop the model follows before it stops looking.
MaxSteps == 10
\* Number of states of the global pseudo-random generator.
RngMod == 8

\* ------------------------------------------------------------ number model
PosInf == MaxFloat + 1
NegInf == -(MaxFloat + 1)
NaN == MaxFloat + 2
\* Python's None, and the value of a local that was never assigned.
None == -(MaxFloat + 3)

IsFin(x) == x >= -MaxFloat /\ x <= MaxFloat
IsInf(x) == x = PosInf \/ x = NegInf

\* Overflow of a finite result.
Sat(n) == IF n > MaxFloat THEN PosInf ELSE IF n < -MaxFloat THEN NegInf ELSE n

Sgn(n) == IF n > 0 THEN 1 ELSE IF n < 0 THEN -1 ELSE 0

\* IEEE addition, subtraction and multiplication on finite values, infinities and nan.
FNeg(x) == IF x = NaN THEN NaN ELSE -x

FAdd(x, y) ==
    IF x = NaN \/ y = NaN THEN NaN
    ELSE IF IsInf(x) /\ IsInf(y) THEN (IF x = y THEN x ELSE NaN)
    ELSE IF IsInf(x) THEN x
    ELSE IF IsInf(y) THEN y
    ELSE Sat(x + y)

FSub(x, y) == FAdd(x, FNeg(y))

FMul(x, y) ==
    IF x = NaN \/ y = NaN THEN NaN
    ELSE IF IsInf(x) \/ IsInf(y)
         THEN (IF x = 0 \/ y = 0 THEN NaN
               ELSE IF Sgn(x) * Sgn(y) > 0 THEN PosInf ELSE NegInf)
    ELSE Sat(x * y)

\* Python's == on floats: nan equals nothing.
FEq(x, y) == x # NaN /\ y # NaN /\ x = y

\* The representable position nearest to the rational n / d (d # 0): an even
\* integer, a tie going to the multiple of 4.
Round(n, d) ==
    LET nn == IF d < 0 THEN -n ELSE n
        dd == 2 * (IF d < 0 THEN -d ELSE d)
        fl == nn \div dd
        r  == nn - fl * dd
        q  == IF 2 * r < dd THEN fl
              ELSE IF 2 * r > dd THEN fl + 1
              ELSE IF fl % 2 = 0 THEN fl ELSE fl + 1
    IN  2 * q

\* np.sign: -1, 0, 1, and nan for nan.
Sign(x) == IF x = NaN THEN NaN ELSE Sgn(x)

\* --------------------------------------------------- the functions solved
\* The callables handed to solve(): continuous real functions, given by
\* their values at the numbers of the model.
Funcs == {"lin", "quad", "cubic", "noroot"}

\* lin: x - 8, an exact zero at the position 8.
\* quad: (x - 8)^2 - 12, two zeros (in 4..5 and 11..12), equal values at
\*   8 - t and 8 + t.
\* cubic: (x - 3)(x - 9)(x - 13), three sign changes, none at a position.
\* noroot: x^2 + 1, no real zero.
Apply(fn, x) ==
    CASE fn = "lin" -> FSub(x, 8)
      [] fn = "quad" -> FSub(FMul(FSub(x, 8), FSub(x, 8)), 12)
      [] fn = "cubic" -> FMul(FMul(FSub(x, 3), FSub(x, 9)), FSub(x, 13))
      [] fn = "noroot" -> FAdd(FMul(x, x), 1)

\* ------------------------------------------------- the random generator
\* numpy's global generator, a deterministic stream: np.random.seed sets its
\* state from the seed alone, and every np.random.rand value is read from
\* the state, which then advances.
SeedState(seed) == seed % RngMod

NextRng(s) == (5 * s + 3) % RngMod

\* np.random.rand(2): two successive values of the stream, each s / RngMod
\* in [0, 1), kept as the numerator s.
Rand2(s) == <<s, NextRng(s)>>

AfterRand2(s) == NextRng(NextRng(s))

\* ---------------------------------------------------------- configuration
\* The solver objects of the program.
Instances == {1, 2}

\* Arguments of the constructor, already validated (lines 19-55).
Intervals == {<<0, 16>>, <<16, 6>>, <<4, 10>>}

Precisions == {1, 3, 6}

Seeds == {None, 0, 1}

\* A parameter the chosen solver never reads keeps one value.
Configs ==
    [solver : {"bisect", "golden"}, max_iter : {1}, interval : Intervals,
     precision : Precisions, n_sample : 1..MaxSample, random_state : Seeds]
    \cup
    [solver : {"secant"}, max_iter : 1..MaxIter, interval : Intervals,
     precision : {1}, n_sample : 1..MaxSample, random_state : Seeds]

\* ------------------------------------------------------------------ state
VARIABLES
    np_random,  \* state of numpy's global generator
    self,       \* the private fields of each solver object
    pc,         \* where the running solve() is: "idle" when none runs
    me,         \* the object whose solve() runs
    loc,        \* the locals of the running method
    out         \* per object: what its last solve() did (history)

vars == <<np_random, self, pc, me, loc, out>>

NoLocals ==
    [interval |-> <<None, None>>, count_sample |-> 0,
     left |-> None, right |-> None,
     previous |-> None, current |-> None, it |-> 0,
     a |-> None, b |-> None, a_prev |-> None, b_prev |-> None,
     x1 |-> None, x2 |-> None,
     steps |-> 0, w_prev |-> None]

NoObject ==
    [constructed |-> FALSE, solver |-> "bisect", max_iter |-> 1,
     interval_min |-> None, interval_max |-> None,
     precision |-> 1, n_sample |-> 1, func |-> "lin"]

NoResult == [kind |-> "none", val |-> None]

NoConfig ==
    [solver |-> "none", max_iter |-> 1, interval |-> <<None, None>>,
     precision |-> 1, n_sample |-> 1, random_state |-> None]

NoHistory ==
    [cfg |-> NoConfig, calls |-> 0, func |-> "lin", start |-> <<None, None>>,
     drawn |-> <<>>, bracket |-> <<None, None>>, window |-> <<None, None>>,
     steps |-> 0, degenerate |-> FALSE, result |-> NoResult]

Init ==
    /\ np_random \in 0..(RngMod - 1)
    /\ self = [i \in Instances |-> NoObject]
    /\ pc = "idle"
    /\ me = 1
    /\ loc = NoLocals
    /\ out = [i \in Instances |-> NoHistory]

Min2(p) == IF p[1] <= p[2] THEN p[1] ELSE p[2]
Max2(p) == IF p[1] <= p[2] THEN p[2] ELSE p[1]

\* sorted(interval), interval.sort()
Sorted(p) == <<Min2(p), Max2(p)>>

\* __init__: the fields are set from the arguments; line 43 unpacks the sorted
\* pair into (__interval_max, __interval_min) in that order; a given
\* random_state seeds the global generator.
Construct(i, cfg) ==
    /\ pc = "idle"
    /\ ~self[i].constructed
    /\ self' = [self EXCEPT ![i] =
                  [constructed |-> TRUE, solver |-> cfg.solver,
                   max_iter |-> cfg.max_iter,
                   interval_max |-> Sorted(cfg.interval)[1],
                   interval_min |-> Sorted(cfg.interval)[2],
                   precision |-> cfg.precision, n_sample |-> cfg.n_sample,
                   func |-> "lin"]]
    /\ np_random' = IF cfg.random_state # None
                    THEN SeedState(cfg.random_state) ELSE np_random
    /\ out' = [out EXCEPT ![i] = [NoHistory EXCEPT !.cfg = cfg]]
    /\ UNCHANGED <<pc, me, loc>>

\* solve(func) up to the first test of __setInterval's loop (lines 71-82).
Solve(i, fn) ==
    /\ pc = "idle"
    /\ self[i].constructed
    /\ self' = [self EXCEPT ![i].func = fn]
    /\ pc' = "setInterval"
    /\ me' = i
    /\ loc' = [NoLocals EXCEPT
                 !.interval = <<self[i].interval_min, self[i].interval_max>>]
    /\ out' = [out EXCEPT ![i] =
                 [NoHistory EXCEPT
                    !.cfg = out[i].cfg, !.calls = out[i].calls,
                    !.func = fn,
                    !.start = <<self[i].interval_min, self[i].interval_max>>]]
    /\ UNCHANGED np_random

\* Completed solve() calls of an object, counted up to 2.
Called(i) == IF out[i].calls < 2 THEN out[i].calls + 1 ELSE 2

\* Line 83 with > in place of >=: a pair with an exact zero ends the search.
KeepSamplingLoose(fn, p) ==
    LET s1 == Sign(Apply(fn, p[1]))
        s2 == Sign(Apply(fn, p[2]))
    IN  s1 # NaN /\ s2 # NaN /\ s1 * s2 > 0

\* np.prod(np.sign(self.__func(interval))) >= 0 (line 83); a nan compares False.
KeepSampling(fn, p) ==
    LET s1 == Sign(Apply(fn, p[1]))
        s2 == Sign(Apply(fn, p[2]))
    IN  s1 # NaN /\ s2 # NaN /\ s1 * s2 >= 0

\* (self.__interval_max - self.__interval_min) * r + self.__interval_min for
\* r = k / RngMod (line 86).
Scale(lo, hi, k) == Round(lo * RngMod + (hi - lo) * k, RngMod)

\* One pass of the loop body: lines 84-87, the budget not yet used up.
SetIntervalSample ==
    /\ pc = "setInterval"
    /\ KeepSampling(self[me].func, loc.interval)
    /\ loc.count_sample # self[me].n_sample
    /\ LET r == Rand2(np_random)
           drawn == <<Scale(self[me].interval_min, self[me].interval_max, r[1]),
                      Scale(self[me].interval_min, self[me].interval_max, r[2])>>
       IN  /\ loc' = [loc EXCEPT !.interval = drawn,
                                 !.count_sample = loc.count_sample + 1]
           /\ out' = [out EXCEPT ![me].drawn = Append(out[me].drawn, drawn)]
    /\ np_random' = AfterRand2(np_random)
    /\ UNCHANGED <<self, pc, me>>

\* Lines 84-85 raising one draw early.
SetIntervalRaiseEarly ==
    /\ pc = "setInterval"
    /\ KeepSampling(self[me].func, loc.interval)
    /\ loc.count_sample + 1 = self[me].n_sample
    /\ pc' = "idle"
    /\ loc' = NoLocals
    /\ out' = [out EXCEPT ![me].result = [kind |-> "RuntimeError", val |-> None],
                          ![me].calls = Called(me)]
    /\ UNCHANGED <<np_random, self, me>>

\* Lines 84-85: the budget is used up, RuntimeError leaves solve().
SetIntervalRaise ==
    /\ pc = "setInterval"
    /\ KeepSampling(self[me].func, loc.interval)
    /\ loc.count_sample = self[me].n_sample
    /\ pc' = "idle"
    /\ loc' = NoLocals
    /\ out' = [out EXCEPT ![me].result = [kind |-> "RuntimeError", val |-> None],
                          ![me].calls = Called(me)]
    /\ UNCHANGED <<np_random, self, me>>

\* The loop ends: lines 88-89 sort the pair and store it in the object, and
\* solve() enters the configured refiner, whose first lines read it back
\* (92-93, 103, 111-115).
SetIntervalAccept ==
    /\ pc = "setInterval"
    /\ ~KeepSampling(self[me].func, loc.interval)
    /\ LET br == Sorted(loc.interval)
       IN  /\ self' = [self EXCEPT ![me].interval_min = br[1],
                                   ![me].interval_max = br[2]]
           /\ out' = [out EXCEPT ![me].bracket = br]
           /\ loc' = CASE self[me].solver = "bisect" ->
                             [NoLocals EXCEPT !.left = br[1], !.right = br[2]]
                        [] self[me].solver = "secant" ->
                             [NoLocals EXCEPT !.previous = br[1], !.current = br[2]]
                        [] self[me].solver = "golden" ->
                             [NoLocals EXCEPT !.a = br[1], !.b = br[2]]
    /\ pc' = self[me].solver
    /\ UNCHANGED <<np_random, me>>

\* solve() returns: the value reaches the caller.
Return(v, window) ==
    /\ pc' = "idle"
    /\ loc' = NoLocals
    /\ out' = [out EXCEPT ![me].result = [kind |-> "value", val |-> v],
                          ![me].window = window,
                          ![me].steps = loc.steps,
                          ![me].calls = Called(me)]

\* ------------------------------------------------------- __binary_search
\* left + (right - left) / 2 (lines 95 and 100).
Mid(left, right) == Round(2 * left + (right - left), 2)

\* np.sign(u) == np.sign(v) (lines 96 and 123).
SameSign(u, v) == FEq(Sign(u), Sign(v))

\* Lines 96-99 with the two assignments exchanged.
BisectStepSwapped ==
    /\ pc = "bisect"
    /\ (loc.right - loc.left) >= self[me].precision
    /\ loc.steps < MaxSteps
    /\ LET mid == Mid(loc.left, loc.right)
           f == self[me].func
       IN  loc' = IF SameSign(Apply(f, mid), Apply(f, loc.left))
                  THEN [loc EXCEPT !.right = mid, !.steps = loc.steps + 1,
                                   !.w_prev = loc.right - loc.left]
                  ELSE [loc EXCEPT !.left = mid, !.steps = loc.steps + 1,
                                   !.w_prev = loc.right - loc.left]
    /\ UNCHANGED <<np_random, self, pc, me, out>>

\* One pass of the while loop, lines 94-99.
BisectStep ==
    /\ pc = "bisect"
    /\ (loc.right - loc.left) >= self[me].precision
    /\ loc.steps < MaxSteps
    /\ LET mid == Mid(loc.left, loc.right)
           f == self[me].func
       IN  loc' = IF SameSign(Apply(f, mid), Apply(f, loc.left))
                  THEN [loc EXCEPT !.left = mid, !.steps = loc.steps + 1,
                                   !.w_prev = loc.right - loc.left]
                  ELSE [loc EXCEPT !.right = mid, !.steps = loc.steps + 1,
                                   !.w_prev = loc.right - loc.left]
    /\ UNCHANGED <<np_random, self, pc, me, out>>

\* The loop test fails: line 100.
BisectReturn ==
    /\ pc = "bisect"
    /\ ~((loc.right - loc.left) >= self[me].precision)
    /\ Return(Mid(loc.left, loc.right), <<loc.left, loc.right>>)
    /\ UNCHANGED <<np_random, self, me>>

\* --------------------------------------------------------------- __secant
\* c - n / d in IEEE arithmetic: a zero divisor gives an infinity (nan for
\* 0 / 0) and no exception; x - x is +0.
SubQuot(c, n, d) ==
    IF c = NaN \/ n = NaN \/ d = NaN THEN NaN
    ELSE IF IsInf(n) /\ IsInf(d) THEN NaN
    ELSE IF IsInf(n)
         THEN FSub(c, IF Sgn(n) * (IF d < 0 THEN -1 ELSE 1) > 0 THEN PosInf ELSE NegInf)
    ELSE IF IsInf(d) THEN c
    ELSE IF d = 0
         THEN (IF n = 0 THEN NaN ELSE FSub(c, IF n > 0 THEN PosInf ELSE NegInf))
    ELSE IF IsInf(c) THEN c
    ELSE Sat(Round(c * d - n, d))

\* The right-hand side of line 107.
SecantNext(fn, previous, current) ==
    SubQuot(current,
            FMul(Apply(fn, current), FSub(current, previous)),
            FSub(Apply(fn, current), Apply(fn, previous)))

\* Line 107 divides by zero although the two points differ.
ZeroDivision(fn, previous, current) ==
    /\ IsFin(previous) /\ IsFin(current) /\ previous # current
    /\ IsFin(Apply(fn, current))
    /\ Apply(fn, current) = Apply(fn, previous)

\* One pass of the for loop, lines 104-107.
SecantStep ==
    /\ pc = "secant"
    /\ loc.it < self[me].max_iter
    /\ ~FEq(loc.previous, loc.current)
    /\ loc' = [loc EXCEPT !.previous = loc.current,
                          !.current = SecantNext(self[me].func, loc.previous, loc.current),
                          !.it = loc.it + 1,
                          !.steps = loc.steps + 1]
    /\ out' = [out EXCEPT ![me].degenerate =
                 out[me].degenerate \/ ZeroDivision(self[me].func, loc.previous, loc.current)]
    /\ UNCHANGED <<np_random, self, pc, me>>

\* The range is used up or line 106 breaks: line 108.
SecantReturn ==
    /\ pc = "secant"
    /\ (loc.it = self[me].max_iter \/ FEq(loc.previous, loc.current))
    /\ Return(loc.current, <<loc.previous, loc.current>>)
    /\ UNCHANGED <<np_random, self, me>>

\* --------------------------------------------------------------- __golden
\* gamma = 0.3819660112501051 (line 111), to seven digits.
GammaNum == 3819660
GammaDen == 10000000

\* a + gamma * (b - a) (lines 121 and 130)
Probe1(a, b) == Round(a * GammaDen + GammaNum * (b - a), GammaDen)

\* a + (1 - gamma) * (b - a) (lines 122 and 126)
Probe2(a, b) == Round(a * GammaDen + (GammaDen - GammaNum) * (b - a), GammaDen)

\* Line 116 alone, without the break of lines 117-118.
GoldenContinuesNoBreak ==
    (loc.b - loc.a) > self[me].precision

\* The while test of line 116 and the break of lines 117-118.
GoldenContinues ==
    /\ (loc.b - loc.a) > self[me].precision
    /\ ~(loc.a = loc.b \/ (loc.a = loc.a_prev /\ loc.b = loc.b_prev))

\* Lines 123-130 comparing sign(f(b)) with sign(f(x1)).
GoldenStepFromB ==
    /\ pc = "golden"
    /\ GoldenContinues
    /\ loc.steps < MaxSteps
    /\ LET a == loc.a
           b == loc.b
           f == self[me].func
           x1 == Probe1(a, b)
           x2 == Probe2(a, b)
       IN  loc' = IF SameSign(Apply(f, b), Apply(f, x1))
                  THEN [loc EXCEPT !.a_prev = a, !.b_prev = b,
                                   !.a = x1, !.x1 = x2, !.x2 = Probe2(x1, b),
                                   !.steps = loc.steps + 1]
                  ELSE [loc EXCEPT !.a_prev = a, !.b_prev = b,
                                   !.b = x2, !.x2 = x1, !.x1 = Probe1(a, x2),
                                   !.steps = loc.steps + 1]
    /\ UNCHANGED <<np_random, self, pc, me, out>>

\* One pass of the while loop, lines 116-130.
GoldenStep ==
    /\ pc = "golden"
    /\ GoldenContinues
    /\ loc.steps < MaxSteps
    /\ LET a == loc.a
           b == loc.b
           f == self[me].func
           x1 == Probe1(a, b)
           x2 == Probe2(a, b)
       IN  loc' = IF SameSign(Apply(f, a), Apply(f, x1))
                  THEN [loc EXCEPT !.a_prev = a, !.b_prev = b,
                                   !.a = x1, !.x1 = x2, !.x2 = Probe2(x1, b),
                                   !.steps = loc.steps + 1]
                  ELSE [loc EXCEPT !.a_prev = a, !.b_prev = b,
                                   !.b = x2, !.x2 = x1, !.x1 = Probe1(a, x2),
                                   !.steps = loc.steps + 1]
    /\ UNCHANGED <<np_random, self, pc, me, out>>

\* Line 131 with x1 assigned.
GoldenReturn ==
    /\ pc = "golden"
    /\ ~GoldenContinues
    /\ loc.x1 # None
    /\ Return(loc.x1, <<loc.a, loc.b>>)
    /\ UNCHANGED <<np_random, self, me>>

\* Line 131 when the loop body never ran: x1 was never assigned, and reading
\* it raises UnboundLocalError.
GoldenUnbound ==
    /\ pc = "golden"
    /\ ~GoldenContinues
    /\ loc.x1 = None
    /\ pc' = "idle"
    /\ loc' = NoLocals
    /\ out' = [out EXCEPT ![me].result = [kind |-> "UnboundLocalError", val |-> None],
                          ![me].window = <<loc.a, loc.b>>,
                          ![me].steps = loc.steps,
                          ![me].calls = Called(me)]
    /\ UNCHANGED <<np_random, self, me>>

\* ---------------------------------------------------------- specifications
Refine ==
    \/ BisectStep \/ BisectReturn
    \/ SecantStep \/ SecantReturn
    \/ GoldenStep \/ GoldenReturn \/ GoldenUnbound

\* One solver object, every configuration.
Next ==
    \/ \E cfg \in Configs : Construct(1, cfg)
    \/ \E fn \in Funcs : Solve(1, fn)
    \/ SetIntervalSample \/ SetIntervalRaise \/ SetIntervalAccept
    \/ Refine

Spec == Init /\ [][Next]_vars

\* Two solver objects sharing the process's generator, bisection only.
ConfigsTwo ==
    [solver : {"bisect"}, max_iter : {1}, interval : {<<0, 16>>},
     precision : {6}, n_sample : 1..MaxSample, random_state : {0, 1}]

NextTwo ==
    \/ \E i \in Instances, cfg \in ConfigsTwo : Construct(i, cfg)
    \/ \E i \in Instances, fn \in {"quad", "lin"} : Solve(i, fn)
    \/ SetIntervalSample \/ SetIntervalRaise \/ SetIntervalAccept
    \/ BisectStep \/ BisectReturn

SpecTwo == Init /\ [][NextTwo]_vars

\* ------------------------------------------------------------- properties
\* A zero of the continuous function fn lies in [lo, hi] (lo, hi integers):
\* fn vanishes at an integer of the range or changes sign between two
\* neighbouring ones.
RootIn(fn, lo, hi) ==
    \E k \in lo..hi :
        \/ Apply(fn, k) = 0
        \/ k < hi /\ Sgn(Apply(fn, k)) * Sgn(Apply(fn, k + 1)) < 0

\* fn changes sign once in [lo, hi]: it has the sign of fn(lo) below some r
\* and another sign from r on.
SingleCrossing(fn, lo, hi) ==
    \E r \in lo..(hi + 1) : \A x \in lo..hi :
        IF x < r THEN SameSign(Apply(fn, x), Apply(fn, lo))
        ELSE ~SameSign(Apply(fn, x), Apply(fn, lo))

Finished(i) == out[i].result.kind # "none"

Searched(i) == Finished(i) \/ out[i].bracket[1] # None

\* C1: when a bisection solve returns x*, the final bracket is narrower than
\* the precision, its endpoints still have different signs, x* is its
\* midpoint, and a zero of f lies within the precision of x*.
BisectEstimate ==
    \A i \in Instances :
        (out[i].cfg.solver = "bisect" /\ out[i].result.kind = "value") =>
            LET w == out[i].window
                x == out[i].result.val
                p == out[i].cfg.precision
                f == out[i].func
            IN  /\ w[2] - w[1] < p
                /\ w[1] <= w[2]
                /\ ~SameSign(Apply(f, w[1]), Apply(f, w[2]))
                /\ x = Mid(w[1], w[2])
                /\ w[1] <= x /\ x <= w[2]
                /\ RootIn(f, w[1], w[2])
                /\ RootIn(f, x - p, x + p)

BisectEstimateWitness ==
    \E i \in Instances :
        /\ out[i].cfg.solver = "bisect" /\ out[i].result.kind = "value"
        /\ out[i].steps >= 2 /\ Len(out[i].drawn) >= 1

\* C2: the bracket the search hands to the refiner is sorted, its endpoints
\* have strictly opposite signs (no exact zero), and both lie inside the
\* interval given at construction.
BracketSound ==
    \A i \in Instances :
        out[i].bracket[1] # None =>
            LET br == out[i].bracket
                f == out[i].func
            IN  /\ br[1] <= br[2]
                /\ Sign(Apply(f, br[1])) * Sign(Apply(f, br[2])) < 0
                /\ Apply(f, br[1]) # 0 /\ Apply(f, br[2]) # 0
                /\ Min2(out[i].cfg.interval) <= br[1]
                /\ br[2] <= Max2(out[i].cfg.interval)
                /\ self[i].interval_min = br[1] /\ self[i].interval_max = br[2]

BracketSoundWitness ==
    \E i \in Instances :
        /\ out[i].bracket[1] # None
        /\ Len(out[i].drawn) >= 1
        /\ out[i].drawn[Len(out[i].drawn)][1] > out[i].drawn[Len(out[i].drawn)][2]
        /\ out[i].bracket = Sorted(out[i].drawn[Len(out[i].drawn)])

\* Neither the pair the search started from nor any of n_sample drawn pairs
\* has strictly opposite signs.
NoPairBrackets(i) ==
    /\ KeepSampling(out[i].func, out[i].start)
    /\ Len(out[i].drawn) = out[i].cfg.n_sample
    /\ \A k \in 1..Len(out[i].drawn) : KeepSampling(out[i].func, out[i].drawn[k])

SecantZeroDivisionRaises ==
    \A i \in Instances :
        out[i].degenerate =>
            /\ out[i].result.kind # "value"
            /\ ~(pc = "secant" /\ me = i)

\* C5: golden-section refinement entered with b - a <= precision returns an
\* estimate inside [a, b] and raises nothing.
GoldenDegenerateReturns ==
    \A i \in Instances :
        (/\ out[i].cfg.solver = "golden"
         /\ out[i].bracket[1] # None
         /\ out[i].bracket[2] - out[i].bracket[1] <= out[i].cfg.precision
         /\ Finished(i)) =>
            /\ out[i].result.kind = "value"
            /\ out[i].bracket[1] <= out[i].result.val
            /\ out[i].result.val <= out[i].bracket[2]

\* C6: two objects built with the same seed and configuration draw the same
\* points and return the same result for the same function on their first
\* solve, however constructions and solves are interleaved.
Reproducible ==
    (/\ self[1].constructed /\ self[2].constructed
     /\ out[1].cfg = out[2].cfg
     /\ out[1].cfg.random_state # None
     /\ out[1].calls = 1 /\ out[2].calls = 1
     /\ pc = "idle"
     /\ out[1].func = out[2].func) =>
        /\ out[1].drawn = out[2].drawn
        /\ out[1].result = out[2].result

\* C7: every solve starts its search from the interval given at
\* construction, whatever the solves before it did.
IntervalKept ==
    \A i \in Instances :
        out[i].start[1] # None => Sorted(out[i].start) = Sorted(out[i].cfg.interval)

\* C8: every pass of the bisection loop makes right - left strictly smaller.
BisectWidthDecreases ==
    (pc = "bisect" /\ loc.steps > 0) => loc.right - loc.left < loc.w_prev

\* The last pass of the golden-section loop left a and b as they were.
GoldenStalled ==
    pc = "golden" /\ loc.steps > 0 /\ loc.a = loc.a_prev /\ loc.b = loc.b_prev

\* C9: a pass of the golden-section loop never widens the window; after a
\* pass that leaves a and b unchanged, or once b - a <= precision, the next
\* step leaves the loop; and the loop ends within the iterations the model
\* follows.
GoldenShrinks ==
    /\ []((pc = "golden" /\ loc.steps > 0) =>
            /\ loc.a_prev <= loc.a /\ loc.b <= loc.b_prev /\ loc.a <= loc.b
            /\ loc.b - loc.a <= loc.b_prev - loc.a_prev
            /\ loc.steps < MaxSteps)
    /\ [][(GoldenStalled \/ (pc = "golden" /\ loc.b - loc.a <= self[me].precision))
            => pc' = "idle"]_vars

GoldenShrinksWitness ==
    /\ pc = "golden" /\ loc.steps >= 2
    /\ loc.a = loc.a_prev /\ loc.b = loc.b_prev
    /\ loc.b - loc.a > self[me].precision

\* C10 as stated: after every pass the window has sign(f(a)) # sign(f(b)),
\* for every f.
GoldenKeepsSignChange ==
    pc = "golden" =>
        ~SameSign(Apply(self[me].func, loc.a), Apply(self[me].func, loc.b))

\* C10 amended: the same, for every f that changes sign once in the bracket;
\* the returned x1 then lies in a window whose endpoints differ in sign.
GoldenKeepsSingleCrossing ==
    /\ (pc = "golden" /\ SingleCrossing(self[me].func, out[me].bracket[1], out[me].bracket[2])) =>
          ~SameSign(Apply(self[me].func, loc.a), Apply(self[me].func, loc.b))
    /\ \A i \in Instances :
          (/\ out[i].cfg.solver = "golden" /\ out[i].result.kind = "value"
           /\ SingleCrossing(out[i].func, out[i].bracket[1], out[i].bracket[2])) =>
              /\ ~SameSign(Apply(out[i].func, out[i].window[1]),
                           Apply(out[i].func, out[i].window[2]))
              /\ out[i].window[1] <= out[i].result.val
              /\ out[i].result.val <= out[i].window[2]

GoldenKeepsSingleCrossingWitness ==
    /\ pc = "golden" /\ loc.steps >= 2
    /\ SingleCrossing(self[me].func, out[me].bracket[1], out[me].bracket[2])
    /\ loc.a # out[me].bracket[1] /\ loc.b # out[me].bracket[2]

====
